---- MODULE Spec2Model ----
(***************************************************************************)
(* Model of the incremental synthetic-series generator of                  *)
(* saas-customer-analytics (src/src/generator.py): the watermark store,    *)
(* the conflict-skipping writer and generate(), the run controller that    *)
(* resolves the window, draws the three row sets from one seeded random    *)
(* stream, writes them and advances the watermark.                         *)
(*                                                                         *)
(* Dates are day numbers counted from 2023-01-01 (day 0); a datetime is    *)
(* the number of minutes since 2023-01-01 00:00.  Python's None is the     *)
(* empty sequence <<>>, pandas' NaT is <<"NaT", "NaT">> and a present value v is  *)
(* <<v>>.                                                                  *)
(***************************************************************************)
EXTENDS Integers, Sequences, FiniteSets, TLC

\* the wall clock: the latest reading of datetime.now()
VARIABLE clock


(***************************************************************************)
(* Calendar: datetime.date / datetime.datetime arithmetic                  *)
(***************************************************************************)
MinutesPerDay == 24 * 60

Min(a, b) == IF a <= b THEN a ELSE b
Max(a, b) == IF a >= b THEN a ELSE b

IsLeap(y) == (y % 4 = 0 /\ y % 100 # 0) \/ y % 400 = 0

DaysInMonth(y, m) ==
  IF m = 2 THEN (IF IsLeap(y) THEN 29 ELSE 28)
  ELSE IF m \in {4, 6, 9, 11} THEN 30 ELSE 31

DaysInYear(y) == IF IsLeap(y) THEN 366 ELSE 365

RECURSIVE MonthFrom(_, _, _)
\* the civil date of the n-th day (from 0) after the first of month m of year y,
\* n within the year
MonthFrom(y, m, n) ==
  IF n < DaysInMonth(y, m) THEN [y |-> y, m |-> m, d |-> n + 1]
  ELSE MonthFrom(y, m + 1, n - DaysInMonth(y, m))

RECURSIVE YearFrom(_, _)
YearFrom(y, n) ==
  IF n < DaysInYear(y) THEN MonthFrom(y, 1, n) ELSE YearFrom(y + 1, n - DaysInYear(y))

\* datetime.date fields of a day number
YMD(d) == YearFrom(2023, d)

\* date.replace(day = k)
ReplaceDay(d, k) == d - YMD(d).d + k

\* datetime.date() of a datetime
DateOf(dt) == dt \div MinutesPerDay

\* datetime.combine(d, time(hh, mm, 0))
Combine(d, hh, mm) == d * MinutesPerDay + hh * 60 + mm

\* strftime('%Y%m%d%H%M'): the digit groups of the formatted text
StrfYmdHM(dt) ==
  LET c == YMD(DateOf(dt))
      t == dt % MinutesPerDay
  IN <<c.y, c.m, c.d, t \div 60, t % 60>>

\* strftime('%Y%m')
StrfYm(d) == <<YMD(d).y, YMD(d).m>>

RECURSIVE date_range(_, _)
\* the days start_date, start_date + 1, ... up to end_date, in order
date_range(start_date, end_date) ==
  IF start_date <= end_date
  THEN <<start_date>> \o date_range(start_date + 1, end_date)
  ELSE <<>>

\* (d.replace(day=28) + timedelta(days=4)).replace(day=1)
next_month_start(d) == ReplaceDay(ReplaceDay(d, 28) + 4, 1)

RECURSIVE MonthStartsFrom(_, _)
MonthStartsFrom(current, last) ==
  IF current <= last
  THEN <<current>> \o MonthStartsFrom(ReplaceDay(ReplaceDay(current, 28) + 4, 1), last)
  ELSE <<>>

month_starts_between(start_date, end_date) ==
  MonthStartsFrom(ReplaceDay(start_date, 1), ReplaceDay(end_date, 1))

(***************************************************************************)
(* The seeded random stream: random.Random(seed) is a deterministic        *)
(* sequence fixed by the seed.  The stream is a 16-bit linear congruential *)
(* generator whose top six bits are the draw, read as the fraction v/64.   *)
(* Every call of random(), randint() or choice() consumes one element.     *)
(***************************************************************************)
\* a generator seeded from the time of the call as well
RngSeedFromClock(seed) == (seed + clock) % 65536

RngSeed(seed) == seed % 65536

RngNext(s) == (25173 * s + 13849) % 65536

RngOut(s) == s \div 1024

\* rng.random(): v stands for the float v/64 in [0, 1)
Random(s) == [v |-> RngOut(RngNext(s)), rng |-> RngNext(s)]

\* rng.randint(a, b), both ends included
Randint(s, a, b) ==
  [v |-> a + (RngOut(RngNext(s)) * (b - a + 1)) \div 64, rng |-> RngNext(s)]

\* rng.choice(seq)
Choice(s, seq) ==
  [v |-> seq[1 + (RngOut(RngNext(s)) * Len(seq)) \div 64], rng |-> RngNext(s)]

None == <<>>
NaT == <<"NaT", "NaT">>
Some(v) == <<v>>

(***************************************************************************)
(* Source tables read by generate(): raw_users, raw_user_attributes and    *)
(* raw_subscriptions joined to raw_plans.  They are not written by the     *)
(* generator and stay the same over a behaviour.                           *)
(***************************************************************************)
PIPELINE_NAME == "generate"

\* 2023-11-15, 2023-12-01, 2024-01-20, 2024-01-31 as day numbers
D_2023_11_15 == 304 + 14
D_2023_12_01 == 304 + 30
D_2024_01_20 == 365 + 19
D_2024_01_31 == 365 + 30

raw_users == << [user_id |-> "u1"], [user_id |-> "u2"] >>

raw_user_attributes ==
  << [user_id |-> "u1", usage_score |-> Some(90), base_mrr |-> Some(49), nps_score |-> Some(9)],
     [user_id |-> "u2", usage_score |-> Some(10), base_mrr |-> None, nps_score |-> Some(2)] >>

\* raw_subscriptions JOIN raw_plans: start_at and end_at are datetimes
raw_subscriptions ==
  << [subscription_id |-> "s1", user_id |-> "u1", plan_id |-> "pro",
      start_at |-> Combine(D_2023_11_15, 10, 30), end_at |-> None, price_usd |-> 49],
     [subscription_id |-> "s2", user_id |-> "u2", plan_id |-> "basic",
      start_at |-> Combine(D_2024_01_31, 8, 0), end_at |-> None, price_usd |-> 19],
     [subscription_id |-> "s3", user_id |-> "u2", plan_id |-> "basic",
      start_at |-> Combine(D_2023_12_01, 0, 0), end_at |-> Some(Combine(D_2024_01_20, 18, 0)),
      price_usd |-> 19] >>

\* fillna value of one attribute
FillNa(v, default) == IF v = None THEN default ELSE v[1]

\* users.merge(attrs, on="user_id", how="left").fillna({...}) for one user row
MergeUser(r) ==
  LET hit == SelectSeq(raw_user_attributes, LAMBDA a : a.user_id = r.user_id)
  IN IF Len(hit) = 0
     THEN [user_id |-> r.user_id, usage_score |-> 50, base_mrr |-> 0, nps_score |-> 7]
     ELSE [user_id |-> r.user_id,
           usage_score |-> FillNa(hit[1].usage_score, 50),
           base_mrr |-> FillNa(hit[1].base_mrr, 0),
           nps_score |-> FillNa(hit[1].nps_score, 7)]

MergedUsers == [k \in 1..Len(raw_users) |-> MergeUser(raw_users[k])]

\* u.sample(n=sample_users, random_state=seed).reset_index(drop=True): a
\* selection of n distinct rows fixed by the seed (pandas' own generator, not rng)
SampleRows(u, n, seed) ==
  [k \in 1..n |-> u[((seed + k - 1) % Len(u)) + 1]]

\* the users that take part
SampledUsers(u, sample_users, seed) ==
  IF sample_users # 0 /\ sample_users > 0 /\ sample_users < Len(u)
  THEN SampleRows(u, sample_users, seed)
  ELSE u

\* the sampling that leaves the subscriptions of the other users in
SampledSubsAll(u, subs, sample_users, seed) == subs

\* the subscriptions that take part
SampledSubs(u, subs, sample_users, seed) ==
  IF sample_users # 0 /\ sample_users > 0 /\ sample_users < Len(u)
  THEN LET keep_ids == {SampleRows(u, sample_users, seed)[k].user_id : k \in 1..sample_users}
       IN SelectSeq(subs, LAMBDA s : s.user_id \in keep_ids)
  ELSE subs

(***************************************************************************)
(* The three generation loops.  Every loop takes the stream state s and    *)
(* returns the rows it appended together with the stream state it left.    *)
(***************************************************************************)
event_names == <<"login", "feature_used", "dashboard_view", "export_report", "settings_update">>
features == <<"automation", "crm_sync", "analytics", "billing", "alerts">>
categories == <<"billing", "bug", "how_to", "performance">>
failure_reasons == <<"expired_card", "insufficient_funds", "bank_declined">>

\* min(6, int(rng.random() * expected * 2.0)), expected = 0.2 + usage/100 * 3.8,
\* for the draw v/64
NEvents(v, usage) == Min(6, (v * (400 + 76 * usage)) \div 64000)

RECURSIVE EventsOfUserDayFeatureAlways(_, _, _, _, _)
\* the event loop with the feature drawn and stored for every event name
EventsOfUserDayFeatureAlways(s, d, r, i, n_events) ==
  IF i >= n_events THEN [rows |-> <<>>, rng |-> s]
  ELSE
    LET mi == Randint(s, 0, 1439)
        ev_time == Combine(d, 0, 0) + mi.v
        nm == Choice(mi.rng, event_names)
        ft == Choice(nm.rng, features)
        row == [event_id |-> <<"evt", r.user_id, StrfYmdHM(ev_time), nm.v, i>>,
                user_id |-> r.user_id,
                event_time |-> ev_time,
                event_name |-> nm.v,
                properties_json |->
                  [source |-> "sim", usage_score |-> r.usage_score, feature |-> ft.v]]
        rest == EventsOfUserDayFeatureAlways(ft.rng, d, r, i + 1, n_events)
    IN [rows |-> <<row>> \o rest.rows, rng |-> rest.rng]

RECURSIVE EventsOfUserDay(_, _, _, _, _)
\* for i in range(n_events), from index i on
EventsOfUserDay(s, d, r, i, n_events) ==
  IF i >= n_events THEN [rows |-> <<>>, rng |-> s]
  ELSE
    LET mi == Randint(s, 0, 1439)
        ev_time == Combine(d, 0, 0) + mi.v
        nm == Choice(mi.rng, event_names)
        ft == Choice(nm.rng, features)
        after == IF nm.v = "feature_used" THEN ft.rng ELSE nm.rng
        props == IF nm.v = "feature_used"
                 THEN [source |-> "sim", usage_score |-> r.usage_score, feature |-> ft.v]
                 ELSE [source |-> "sim", usage_score |-> r.usage_score]
        row == [event_id |-> <<"evt", r.user_id, StrfYmdHM(ev_time), nm.v, i>>,
                user_id |-> r.user_id,
                event_time |-> ev_time,
                event_name |-> nm.v,
                properties_json |-> props]
        rest == EventsOfUserDay(after, d, r, i + 1, n_events)
    IN [rows |-> <<row>> \o rest.rows, rng |-> rest.rng]

RECURSIVE EventsOfDay(_, _, _, _)
\* for _, r in u.iterrows(), from row k on
EventsOfDay(s, d, u, k) ==
  IF k > Len(u) THEN [rows |-> <<>>, rng |-> s]
  ELSE
    LET c == Random(s)
        mine == EventsOfUserDay(c.rng, d, u[k], 0, NEvents(c.v, u[k].usage_score))
        rest == EventsOfDay(mine.rng, d, u, k + 1)
    IN [rows |-> mine.rows \o rest.rows, rng |-> rest.rng]

RECURSIVE EventLoop(_, _, _, _)
\* for d in date_range(start_d, end_d), from the j-th day on
EventLoop(s, days, u, j) ==
  IF j > Len(days) THEN [rows |-> <<>>, rng |-> s]
  ELSE
    LET mine == EventsOfDay(s, days[j], u, 1)
        rest == EventLoop(mine.rng, days, u, j + 1)
    IN [rows |-> mine.rows \o rest.rows, rng |-> rest.rng]

\* 200 * min(0.35, 0.05 + max(0, 50 - usage)/200 + max(0, 7 - nps)/20)
FailProb200(usage, nps) == Min(70, 10 + Max(0, 50 - usage) + 10 * Max(0, 7 - nps))

\* u_lookup.get(user_id, {"usage_score": 50, "nps_score": 7})
ULookup(u, user_id) ==
  LET hit == SelectSeq(u, LAMBDA r : r.user_id = user_id)
  IN IF Len(hit) = 0 THEN [usage_score |-> 50, nps_score |-> 7]
     ELSE [usage_score |-> hit[Len(hit)].usage_score, nps_score |-> hit[Len(hit)].nps_score]

RECURSIVE InvoicesOfSubPaidAtKept(_, _, _, _, _)
\* the invoice loop with paid_at assigned before the branch and not reset to None
\* when the payment fails
InvoicesOfSubPaidAtKept(s, sub, u, months, j) ==
  IF j > Len(months) THEN [rows |-> <<>>, rng |-> s]
  ELSE
    LET month_start == months[j]
        issued_at == Combine(month_start, 9, 0)
        info == ULookup(u, sub.user_id)
        c == Random(s)
        failed == c.v * 200 < 64 * FailProb200(info.usage_score, info.nps_score)
        fh == Randint(c.rng, 2, 48)
        fr == Choice(fh.rng, failure_reasons)
        ph == Randint(c.rng, 1, 24)
        row == [invoice_id |-> <<"inv", sub.subscription_id, StrfYm(month_start)>>,
                subscription_id |-> sub.subscription_id,
                amount_usd |-> sub.price_usd,
                issued_at |-> issued_at,
                paid_at |-> Some(issued_at + 60 * ph.v),
                failed_at |-> IF failed THEN Some(issued_at + 60 * fh.v) ELSE None,
                failure_reason |-> IF failed THEN Some(fr.v) ELSE None]
        rest == InvoicesOfSubPaidAtKept(IF failed THEN fr.rng ELSE ph.rng, sub, u, months, j + 1)
    IN [rows |-> <<row>> \o rest.rows, rng |-> rest.rng]

RECURSIVE InvoicesOfSub(_, _, _, _, _)
\* for month_start in month_starts_between(...), from the j-th month on
InvoicesOfSub(s, sub, u, months, j) ==
  IF j > Len(months) THEN [rows |-> <<>>, rng |-> s]
  ELSE
    LET month_start == months[j]
        issued_at == Combine(month_start, 9, 0)
        info == ULookup(u, sub.user_id)
        c == Random(s)
        failed == c.v * 200 < 64 * FailProb200(info.usage_score, info.nps_score)
        fh == Randint(c.rng, 2, 48)
        fr == Choice(fh.rng, failure_reasons)
        ph == Randint(c.rng, 1, 24)
        row == [invoice_id |-> <<"inv", sub.subscription_id, StrfYm(month_start)>>,
                subscription_id |-> sub.subscription_id,
                amount_usd |-> sub.price_usd,
                issued_at |-> issued_at,
                paid_at |-> IF failed THEN None ELSE Some(issued_at + 60 * ph.v),
                failed_at |-> IF failed THEN Some(issued_at + 60 * fh.v) ELSE None,
                failure_reason |-> IF failed THEN Some(fr.v) ELSE None]
        rest == InvoicesOfSub(IF failed THEN fr.rng ELSE ph.rng, sub, u, months, j + 1)
    IN [rows |-> <<row>> \o rest.rows, rng |-> rest.rng]

\* the invoice loop without the mid-month shift
InvoiceStartNoShift(start_d, last_run) == start_d

\* the shift applied by every incremental run, also to a window that starts on the
\* first day of a month
InvoiceStartShiftAlways(start_d, last_run) ==
  IF last_run # None THEN next_month_start(start_d) ELSE start_d

\* the first day the invoice loop looks at: the mid-month shift of an incremental run
InvoiceStart(start_d, last_run) ==
  IF last_run # None /\ YMD(start_d).d # 1 THEN next_month_start(start_d) ELSE start_d

RECURSIVE InvoiceLoop(_, _, _, _, _, _)
\* for _, s in subs.iterrows(), from row k on
InvoiceLoop(s, subs, u, invoice_start_d, end_d, k) ==
  IF k > Len(subs) THEN [rows |-> <<>>, rng |-> s]
  ELSE
    LET sub == subs[k]
        sub_start == DateOf(sub.start_at)
        sub_end == IF sub.end_at # None THEN DateOf(sub.end_at[1]) ELSE end_d
        window_start == Max(sub_start, invoice_start_d)
        window_end == Min(sub_end, end_d)
        mine == InvoicesOfSub(s, sub, u, month_starts_between(window_start, window_end), 1)
        rest == InvoiceLoop(mine.rng, subs, u, invoice_start_d, end_d, k + 1)
    IN [rows |-> mine.rows \o rest.rows, rng |-> rest.rng]

\* 20000 * min(0.02, 0.002 + max(0, 40 - usage)/20000 + max(0, 6 - nps)/5000)
TicketProb20000(usage, nps) == Min(400, 40 + Max(0, 40 - usage) + 4 * Max(0, 6 - nps))

\* int(round(nps / 2 + c)): Python rounds a half to the even neighbour
RoundHalfEven(twice) ==
  IF twice % 2 = 0 THEN twice \div 2
  ELSE IF (twice \div 2) % 2 = 0 THEN twice \div 2 ELSE twice \div 2 + 1

Csat(nps, c) == Max(1, Min(5, RoundHalfEven(nps + 2 * c)))

RECURSIVE TicketsOfDay(_, _, _, _)
TicketsOfDay(s, d, u, k) ==
  IF k > Len(u) THEN [rows |-> <<>>, rng |-> s]
  ELSE
    LET r == u[k]
        c == Random(s)
        hit == c.v * 20000 < 64 * TicketProb20000(r.usage_score, r.nps_score)
        mi == Randint(c.rng, 0, 1439)
        created_at == Combine(d, 0, 0) + mi.v
        rh == Randint(mi.rng, 2, 72)
        cs == Choice(rh.rng, <<-1, 0, 0, 1>>)
        cat == Choice(cs.rng, categories)
        row == [ticket_id |-> <<"tkt", r.user_id, StrfYmdHM(created_at)>>,
                user_id |-> r.user_id,
                created_at |-> created_at,
                category |-> cat.v,
                resolved_at |-> created_at + 60 * rh.v,
                csat |-> Csat(r.nps_score, cs.v)]
        rest == TicketsOfDay(IF hit THEN cat.rng ELSE c.rng, d, u, k + 1)
    IN [rows |-> (IF hit THEN <<row>> ELSE <<>>) \o rest.rows, rng |-> rest.rng]

RECURSIVE TicketLoop(_, _, _, _)
TicketLoop(s, days, u, j) ==
  IF j > Len(days) THEN [rows |-> <<>>, rng |-> s]
  ELSE
    LET mine == TicketsOfDay(s, days[j], u, 1)
        rest == TicketLoop(mine.rng, days, u, j + 1)
    IN [rows |-> mine.rows \o rest.rows, rng |-> rest.rng]


(***************************************************************************)
(* pandas.DataFrame(rows).to_dict(orient="records") and the conflict-safe  *)
(* writer.  A table is the set of its rows.                                *)
(***************************************************************************)
\* the columns pandas holds as datetime64 once one row has a value in them
DatetimeColumns == {"paid_at", "failed_at"}
NullableColumns == {"paid_at", "failed_at", "failure_reason"}

\* DataFrame(rows).to_dict(orient="records"): a missing datetime comes back as NaT
\* when its column holds a datetime in some row
FrameRecords(rows) ==
  [i \in 1..Len(rows) |->
     [c \in DOMAIN rows[i] |->
        IF c \in DatetimeColumns /\ rows[i][c] = None
           /\ \E j \in 1..Len(rows) : rows[j][c] # None
        THEN NaT ELSE rows[i][c]]]

\* {k: (None if pd.isna(v) else v) for k, v in row.items()}
normalize_row(row) ==
  [c \in DOMAIN row |->
     IF c \in NullableColumns /\ row[c] \in {None, NaT} THEN None ELSE row[c]]

\* the value of the primary key of a row
PkOf(row, pk_columns) == [i \in 1..Len(pk_columns) |-> row[pk_columns[i]]]

RECURSIVE chunked_rows(_, _)
\* rows[0:size], rows[size:2*size], ...
chunked_rows(rows, size) ==
  IF Len(rows) = 0 THEN <<>>
  ELSE <<SubSeq(rows, 1, Min(size, Len(rows)))>>
       \o chunked_rows(SubSeq(rows, Min(size, Len(rows)) + 1, Len(rows)), size)

RECURSIVE InsertPlain(_, _, _, _)
\* a plain INSERT on a table without the primary key: every row is added
InsertPlain(table, chunk, pk_columns, k) ==
  IF k > Len(chunk) THEN [table |-> table, rowcount |-> 0]
  ELSE
    LET rest == InsertPlain(table \cup {chunk[k]}, chunk, pk_columns, k + 1)
    IN [table |-> rest.table, rowcount |-> rest.rowcount + 1]

RECURSIVE InsertOnConflictDoUpdate(_, _, _, _)
\* INSERT ... ON CONFLICT (pk) DO UPDATE: a row whose key is taken replaces the stored
\* row and counts as affected
InsertOnConflictDoUpdate(table, chunk, pk_columns, k) ==
  IF k > Len(chunk) THEN [table |-> table, rowcount |-> 0]
  ELSE
    LET row == chunk[k]
        others == { old \in table : PkOf(old, pk_columns) # PkOf(row, pk_columns) }
        rest == InsertOnConflictDoUpdate(others \cup {row}, chunk, pk_columns, k + 1)
    IN [table |-> rest.table, rowcount |-> rest.rowcount + 1]

RECURSIVE InsertOnConflictDoNothing(_, _, _, _)
\* INSERT ... VALUES (chunk) ON CONFLICT (pk) DO NOTHING, from row k of the chunk on:
\* the table after the statement and its rowcount
InsertOnConflictDoNothing(table, chunk, pk_columns, k) ==
  IF k > Len(chunk) THEN [table |-> table, rowcount |-> 0]
  ELSE
    LET row == chunk[k]
        taken == \E old \in table : PkOf(old, pk_columns) = PkOf(row, pk_columns)
        rest == InsertOnConflictDoNothing(IF taken THEN table ELSE table \cup {row},
                                          chunk, pk_columns, k + 1)
    IN [table |-> rest.table, rowcount |-> rest.rowcount + (IF taken THEN 0 ELSE 1)]

\* one pass of the loop body of insert_ignore_conflicts on the connection's view
ExecuteChunk(table, chunk, pk_columns) ==
  InsertOnConflictDoNothing(table,
                            [i \in 1..Len(chunk) |-> normalize_row(chunk[i])],
                            pk_columns, 1)

RECURSIVE ExecuteChunks(_, _, _, _)
ExecuteChunks(table, chunks, pk_columns, k) ==
  IF k > Len(chunks) THEN [table |-> table, inserted |-> 0]
  ELSE
    LET one == ExecuteChunk(table, chunks[k], pk_columns)
        rest == ExecuteChunks(one.table, chunks, pk_columns, k + 1)
    IN [table |-> rest.table, inserted |-> one.rowcount + rest.inserted]

\* a call of insert_ignore_conflicts that returns: the committed table and the count
insert_ignore_conflicts(table, rows, pk_columns, chunk_size) ==
  IF Len(rows) = 0 THEN [table |-> table, inserted |-> 0]
  ELSE ExecuteChunks(table, chunked_rows(rows, chunk_size), pk_columns, 1)

\* a transaction that is committed also when an exception leaves its block
TransactionEndCommits(committed, view, raised) == view

\* engine.begin() as a context manager: commit when the block ends, roll back when
\* an exception leaves it
TransactionEnd(committed, view, raised) == IF raised THEN committed ELSE view

(***************************************************************************)
(* Watermark store: raw.raw_etl_run_log is a set of rows                   *)
(* [pipeline, last_run_at].                                                *)
(***************************************************************************)
\* SELECT last_run_at ... WHERE pipeline = :p; fetchone(); row[0] if row and row[0]
get_last_run(log) ==
  IF \E r \in log : r.pipeline = PIPELINE_NAME
  THEN (CHOOSE r \in log : r.pipeline = PIPELINE_NAME).last_run_at
  ELSE None

\* a plain INSERT of the watermark row, without the upsert
SetLastRunInsertOnly(log, ts) ==
  log \cup {[pipeline |-> PIPELINE_NAME, last_run_at |-> Some(ts)]}

\* a watermark row that keeps the greater of the stored and the new timestamp
SetLastRunGreatest(log, ts) ==
  IF get_last_run(log) # None /\ get_last_run(log)[1] > ts THEN log
  ELSE {r \in log : r.pipeline # PIPELINE_NAME}
         \cup {[pipeline |-> PIPELINE_NAME, last_run_at |-> Some(ts)]}

\* INSERT ... ON CONFLICT (pipeline) DO UPDATE SET last_run_at = EXCLUDED.last_run_at
set_last_run(log, ts) ==
  {r \in log : r.pipeline # PIPELINE_NAME}
    \cup {[pipeline |-> PIPELINE_NAME, last_run_at |-> Some(ts)]}

\* a forced rebuild that leaves the watermark row in place
ClearNothing(log) == log

\* DELETE FROM raw.raw_etl_run_log WHERE pipeline = :p
clear_last_run(log) == {r \in log : r.pipeline # PIPELINE_NAME}

\* the window resolved from the watermark's own day, without the step to the next day
ResolveStartSameDay(last_run, now_dt, lookback_days) ==
  IF last_run = None
  THEN now_dt - lookback_days * MinutesPerDay
  ELSE Combine(DateOf(last_run[1]), 0, 0)

\* the window resolved with the default lookback of 7 days whatever the argument
ResolveStartDefaultLookback(last_run, now_dt, lookback_days) ==
  IF last_run = None
  THEN now_dt - 7 * MinutesPerDay
  ELSE Combine(DateOf(last_run[1]) + 1, 0, 0)

\* the window resolved from the clock alone, the watermark left aside
ResolveStartFromNow(last_run, now_dt, lookback_days) ==
  now_dt - lookback_days * MinutesPerDay

\* the window resolved from the second day after the watermark's day
ResolveStartSkipsDay(last_run, now_dt, lookback_days) ==
  IF last_run = None
  THEN now_dt - lookback_days * MinutesPerDay
  ELSE Combine(DateOf(last_run[1]) + 2, 0, 0)

\* lines 115-119: the first instant of the window
ResolveStart(last_run, now_dt, lookback_days) ==
  IF last_run = None
  THEN now_dt - lookback_days * MinutesPerDay
  ELSE Combine(DateOf(last_run[1]) + 1, 0, 0)


(***************************************************************************)
(* The run controller generate() as a state machine.                       *)
(***************************************************************************)
\* bounds of the exploration
MaxRuns == 3
MaxFailures == 1
MaxRebuilds == 1
HorizonDays == 3

\* the arguments callers pass
Lookbacks == {1, 3}
SampleSizes == {0, 1}
Seeds == {42}

\* the wall clock when the store is set up: 2024-01-29 12:00
Clock0 == Combine(365 + 28, 12, 0)
\* the readings of the wall clock a next run can get: a minute later, or at noon of
\* one of the next two days
NextReadings(t) == {t + 1, Combine(DateOf(t) + 1, 12, 0), Combine(DateOf(t) + 2, 12, 0)}

VARIABLES
  raw_events, raw_invoices, raw_tickets,  \* the three sinks
  raw_etl_run_log,                        \* the watermark table
  config,                                 \* lookback_days, sample_users, seed of the caller
  pc,                                     \* where the run in flight stands
  args, rng, now, last_run, start_dt, end_dt,
  u, subs,                                \* the participating users and subscriptions
  event_rows, invoice_rows, ticket_rows,  \* the generated row sets
  inserted,                               \* the counts generate() returns
  pre,                                    \* the store as it was when the run began
  history,                                \* one record per run that has ended
  ended,                                  \* how and where the latest run ended
  \* calls of insert_ignore_conflicts taken alone (specification SpecW); w_results
  \* holds what each call returned, None for a call that raised
  w_pc, w_table, w_view, w_rows, w_chunk_size, w_next, w_inserted, w_results,
  w_before,
  \* the generation of generate() taken alone (specification SpecG): the clock reading,
  \* the watermark read and the arguments of a call, and what it resolved, sampled and
  \* generated
  g_pc, g_in, g_window, g_u, g_subs, g_rows,
  g_rng,                                  \* the state of the call's generator rng
  g_marks,                                \* the states rng went through: as seeded, after
                                          \* the sampling and after each of the three loops
  \* runs of generate() that interleave on the one store (specification SpecC): the
  \* stage and the locals of each caller, and the runs that have returned, in the
  \* order of their return
  c_pc, c_loc, c_done

store == <<raw_events, raw_invoices, raw_tickets, raw_etl_run_log>>
locals == <<args, rng, now, last_run, start_dt, end_dt, u, subs,
            event_rows, invoice_rows, ticket_rows, inserted, pre>>
writer == <<w_pc, w_table, w_view, w_rows, w_chunk_size, w_next, w_inserted, w_results,
            w_before>>
run == <<store, clock, config, pc, locals, history, ended>>
alone == <<g_pc, g_in, g_window, g_u, g_subs, g_rows, g_rng, g_marks>>
conc == <<c_pc, c_loc, c_done>>
vars == <<run, writer, alone, conc>>

NoArgs == [lookback_days |-> 0, sample_users |-> 0, seed |-> 0, force_rebuild |-> FALSE]
NoInserted == [raw_events |-> 0, raw_invoices |-> 0, raw_tickets |-> 0]
NotEnded == [outcome |-> "none", stage |-> "IDLE"]
NoPre == [raw_events |-> {}, raw_invoices |-> {}, raw_tickets |-> {}, raw_etl_run_log |-> {}]

\* the locals of a call that is not running
LocalsIdle ==
  /\ args = NoArgs /\ rng = 0 /\ now = 0 /\ last_run = None
  /\ start_dt = 0 /\ end_dt = 0 /\ u = <<>> /\ subs = <<>>
  /\ event_rows = <<>> /\ invoice_rows = <<>> /\ ticket_rows = <<>>
  /\ inserted = NoInserted /\ pre = NoPre

\* no call of the writer taken alone
WriterUnused ==
  /\ w_pc = "unused" /\ w_table = {} /\ w_view = {} /\ w_rows = <<>>
  /\ w_chunk_size = 0 /\ w_next = 0 /\ w_inserted = 0 /\ w_results = <<>>
  /\ w_before = {}

NoRows == [events |-> <<>>, invoices |-> <<>>, tickets |-> <<>>]
NoWindow == [start_dt |-> 0, end_dt |-> 0]
NoInput == [now |-> 0, last_run |-> None, lookback_days |-> 0, sample_users |-> 0, seed |-> 0]

\* no call of the generation taken alone
AloneUnused ==
  /\ g_pc = "unused" /\ g_in = NoInput /\ g_window = NoWindow
  /\ g_u = <<>> /\ g_subs = <<>> /\ g_rows = NoRows
  /\ g_rng = 0 /\ g_marks = <<>>

\* the callers whose runs may interleave
Callers == {1, 2}

\* the locals of a caller that is not running
CallerIdle ==
  [now |-> 0, rng |-> 0, last_run |-> None, start_dt |-> 0, end_dt |-> 0,
   u |-> <<>>, subs |-> <<>>,
   event_rows |-> <<>>, invoice_rows |-> <<>>, ticket_rows |-> <<>>,
   inserted |-> NoInserted, overlapped |-> FALSE]

\* no interleaving callers
ConcUnused ==
  /\ c_pc = [p \in Callers |-> "unused"]
  /\ c_loc = [p \in Callers |-> CallerIdle]
  /\ c_done = <<>>

\* a fresh store and no run in flight
InitStore ==
  /\ raw_events = {} /\ raw_invoices = {} /\ raw_tickets = {}
  /\ raw_etl_run_log = {}
  /\ clock = Clock0
  /\ pc = "IDLE"
  /\ LocalsIdle
  /\ history = <<>>
  /\ ended = NotEnded

Init ==
  /\ InitStore
  /\ config \in [lookback_days : Lookbacks, sample_users : SampleSizes, seed : Seeds]
  /\ WriterUnused
  /\ AloneUnused
  /\ ConcUnused

Failures == Cardinality({i \in 1..Len(history) : history[i].outcome = "error"})
Rebuilds == Cardinality({i \in 1..Len(history) : history[i].args.force_rebuild})

\* generate() with set_last_run called right after the generation, before the writes
StageAfterEarlyWatermark(stage) ==
  CASE stage = "FORCE_REBUILD" -> "READING_SOURCES"
    [] stage = "GET_LAST_RUN" -> "READING_SOURCES"
    [] stage = "READING_SOURCES" -> "GENERATING"
    [] stage = "GENERATING" -> "ADVANCING_WATERMARK"
    [] OTHER -> "IDLE"

\* the order of the statements of generate(): the stage that follows a stage
StageAfter(stage) ==
  CASE stage = "FORCE_REBUILD" -> "READING_SOURCES"
    [] stage = "GET_LAST_RUN" -> "READING_SOURCES"
    [] stage = "READING_SOURCES" -> "GENERATING"
    [] stage = "GENERATING" -> "WRITING_EVENTS"
    [] stage = "WRITING_EVENTS" -> "WRITING_INVOICES"
    [] stage = "WRITING_INVOICES" -> "WRITING_TICKETS"
    [] stage = "WRITING_TICKETS" -> "ADVANCING_WATERMARK"
    [] OTHER -> "IDLE"

\* lines 104-105: the call starts, seeds its generator and reads the clock
Begin(force_rebuild, t) ==
  /\ pc = "IDLE"
  /\ Len(history) < MaxRuns
  /\ force_rebuild => Rebuilds < MaxRebuilds
  /\ t > clock /\ DateOf(t) <= DateOf(Clock0) + HorizonDays
  /\ args' = [lookback_days |-> config.lookback_days, sample_users |-> config.sample_users,
              seed |-> config.seed, force_rebuild |-> force_rebuild]
  /\ rng' = RngSeed(config.seed)
  /\ now' = t
  /\ clock' = t
  /\ pre' = [raw_events |-> raw_events, raw_invoices |-> raw_invoices,
             raw_tickets |-> raw_tickets, raw_etl_run_log |-> raw_etl_run_log]
  /\ pc' = IF force_rebuild THEN "FORCE_REBUILD" ELSE "GET_LAST_RUN"
  /\ ended' = NotEnded
  /\ UNCHANGED <<writer, alone, conc>>
  /\ UNCHANGED <<store, config, history, last_run, start_dt, end_dt, u, subs,
                 event_rows, invoice_rows, ticket_rows, inserted>>

\* lines 107-111 and 115-121: truncate the sinks, clear the watermark, resolve the window
ForceRebuild ==
  /\ pc = "FORCE_REBUILD"
  /\ raw_events' = {} /\ raw_invoices' = {} /\ raw_tickets' = {}
  /\ raw_etl_run_log' = clear_last_run(raw_etl_run_log)
  /\ last_run' = None
  /\ start_dt' = ResolveStart(None, now, args.lookback_days)
  /\ end_dt' = now
  /\ pc' = StageAfter(pc)
  /\ UNCHANGED <<writer, alone, conc>>
  /\ UNCHANGED <<clock, config, history, ended, args, rng, now, u, subs,
                 event_rows, invoice_rows, ticket_rows, inserted, pre>>

\* lines 112-121: read the watermark and resolve the window
GetLastRun ==
  /\ pc = "GET_LAST_RUN"
  /\ last_run' = get_last_run(raw_etl_run_log)
  /\ start_dt' = ResolveStart(get_last_run(raw_etl_run_log), now, args.lookback_days)
  /\ end_dt' = now
  /\ pc' = StageAfter(pc)
  /\ UNCHANGED <<writer, alone, conc>>
  /\ UNCHANGED <<store, clock, config, history, ended, args, rng, now, u, subs,
                 event_rows, invoice_rows, ticket_rows, inserted, pre>>

\* lines 124-149: read the sources, merge the attributes, sample
ReadSources ==
  /\ pc = "READING_SOURCES"
  /\ u' = SampledUsers(MergedUsers, args.sample_users, args.seed)
  /\ subs' = SampledSubs(MergedUsers, raw_subscriptions, args.sample_users, args.seed)
  /\ pc' = StageAfter(pc)
  /\ UNCHANGED <<writer, alone, conc>>
  /\ UNCHANGED <<store, clock, config, history, ended, args, rng, now, last_run, start_dt, end_dt,
                 event_rows, invoice_rows, ticket_rows, inserted, pre>>

\* lines 151-274: the event loop, the invoice loop and the ticket loop, in this order
\* on the one stream
Generate ==
  /\ pc = "GENERATING"
  /\ LET start_d == DateOf(start_dt)
         end_d == DateOf(end_dt)
         days == date_range(start_d, end_d)
         ev == EventLoop(rng, days, u, 1)
         inv == InvoiceLoop(ev.rng, subs, u, InvoiceStart(start_d, last_run), end_d, 1)
         tk == TicketLoop(inv.rng, days, u, 1)
     IN /\ event_rows' = ev.rows
        /\ invoice_rows' = inv.rows
        /\ ticket_rows' = tk.rows
        /\ rng' = tk.rng
  /\ pc' = StageAfter(pc)
  /\ UNCHANGED <<writer, alone, conc>>
  /\ UNCHANGED <<store, clock, config, history, ended, args, now, last_run, start_dt, end_dt,
                 u, subs, inserted, pre>>

\* lines 279-287
WriteEvents ==
  /\ pc = "WRITING_EVENTS"
  /\ LET w == insert_ignore_conflicts(raw_events, FrameRecords(event_rows), <<"event_id">>, 1000)
     IN /\ raw_events' = w.table
        /\ inserted' = [inserted EXCEPT !.raw_events = w.inserted]
  /\ pc' = StageAfter(pc)
  /\ UNCHANGED <<writer, alone, conc>>
  /\ UNCHANGED <<raw_invoices, raw_tickets, raw_etl_run_log, clock, config, history, ended,
                 args, rng, now, last_run, start_dt, end_dt, u, subs,
                 event_rows, invoice_rows, ticket_rows, pre>>

\* lines 289-297
WriteInvoices ==
  /\ pc = "WRITING_INVOICES"
  /\ LET w == insert_ignore_conflicts(raw_invoices, FrameRecords(invoice_rows), <<"invoice_id">>, 1000)
     IN /\ raw_invoices' = w.table
        /\ inserted' = [inserted EXCEPT !.raw_invoices = w.inserted]
  /\ pc' = StageAfter(pc)
  /\ UNCHANGED <<writer, alone, conc>>
  /\ UNCHANGED <<raw_events, raw_tickets, raw_etl_run_log, clock, config, history, ended,
                 args, rng, now, last_run, start_dt, end_dt, u, subs,
                 event_rows, invoice_rows, ticket_rows, pre>>

\* lines 299-307
WriteTickets ==
  /\ pc = "WRITING_TICKETS"
  /\ LET w == insert_ignore_conflicts(raw_tickets, FrameRecords(ticket_rows), <<"ticket_id">>, 1000)
     IN /\ raw_tickets' = w.table
        /\ inserted' = [inserted EXCEPT !.raw_tickets = w.inserted]
  /\ pc' = StageAfter(pc)
  /\ UNCHANGED <<writer, alone, conc>>
  /\ UNCHANGED <<raw_events, raw_invoices, raw_etl_run_log, clock, config, history, ended,
                 args, rng, now, last_run, start_dt, end_dt, u, subs,
                 event_rows, invoice_rows, ticket_rows, pre>>

\* what a run leaves in the history when it ends
RunRecord(outcome, stage, log_after) ==
  [args |-> args, now |-> now, wm_before |-> get_last_run(pre.raw_etl_run_log),
   wm_after |-> get_last_run(log_after),
   last_run |-> last_run,
   resolved |-> stage \notin {"FORCE_REBUILD", "GET_LAST_RUN"},
   generated |-> stage \in {"WRITING_EVENTS", "WRITING_INVOICES", "WRITING_TICKETS",
                            "ADVANCING_WATERMARK", "DONE"},
   start_d |-> DateOf(start_dt), end_d |-> DateOf(end_dt),
   u |-> u, subs |-> subs,
   event_rows |-> event_rows, invoice_rows |-> invoice_rows, ticket_rows |-> ticket_rows,
   outcome |-> outcome, stage |-> stage, inserted |-> inserted]

ResetLocals ==
  /\ args' = NoArgs /\ rng' = 0 /\ now' = 0 /\ last_run' = None
  /\ start_dt' = 0 /\ end_dt' = 0 /\ u' = <<>> /\ subs' = <<>>
  /\ event_rows' = <<>> /\ invoice_rows' = <<>> /\ ticket_rows' = <<>>
  /\ inserted' = NoInserted /\ pre' = NoPre

\* lines 309-310: set_last_run(engine, now); return inserted
AdvanceWatermark ==
  /\ pc = "ADVANCING_WATERMARK"
  /\ raw_etl_run_log' = set_last_run(raw_etl_run_log, now)
  /\ history' = Append(history, RunRecord("ok", "DONE", set_last_run(raw_etl_run_log, now)))
  /\ ended' = [outcome |-> "ok", stage |-> "DONE"]
  /\ pc' = "IDLE"
  /\ ResetLocals
  /\ UNCHANGED <<writer, alone, conc>>
  /\ UNCHANGED <<raw_events, raw_invoices, raw_tickets, clock, config>>

\* the stages in which a statement of generate() can raise: a failed transaction is
\* rolled back, and the exception leaves generate()
FailStages == {"FORCE_REBUILD", "GET_LAST_RUN", "READING_SOURCES", "GENERATING",
               "WRITING_EVENTS", "WRITING_INVOICES", "WRITING_TICKETS",
               "ADVANCING_WATERMARK"}

\* what the statement at hand had done to a table inside its transaction when it
\* raised; the stages that open no transaction leave the store alone
ViewAtFailure(stage, table_name) ==
  CASE stage = "FORCE_REBUILD" /\ table_name = "raw_events" -> {}
    [] stage = "FORCE_REBUILD" /\ table_name = "raw_invoices" -> {}
    [] stage = "FORCE_REBUILD" /\ table_name = "raw_tickets" -> {}
    [] stage = "FORCE_REBUILD" /\ table_name = "raw_etl_run_log" ->
         clear_last_run(raw_etl_run_log)
    [] stage = "WRITING_EVENTS" /\ table_name = "raw_events" ->
         insert_ignore_conflicts(raw_events, FrameRecords(event_rows), <<"event_id">>, 1000).table
    [] stage = "WRITING_INVOICES" /\ table_name = "raw_invoices" ->
         insert_ignore_conflicts(raw_invoices, FrameRecords(invoice_rows), <<"invoice_id">>, 1000).table
    [] stage = "WRITING_TICKETS" /\ table_name = "raw_tickets" ->
         insert_ignore_conflicts(raw_tickets, FrameRecords(ticket_rows), <<"ticket_id">>, 1000).table
    [] stage = "ADVANCING_WATERMARK" /\ table_name = "raw_etl_run_log" ->
         set_last_run(raw_etl_run_log, now)
    [] OTHER ->
         CASE table_name = "raw_events" -> raw_events
           [] table_name = "raw_invoices" -> raw_invoices
           [] table_name = "raw_tickets" -> raw_tickets
           [] OTHER -> raw_etl_run_log

Fail ==
  /\ pc \in FailStages
  /\ Failures < MaxFailures
  /\ raw_events' = TransactionEnd(raw_events, ViewAtFailure(pc, "raw_events"), TRUE)
  /\ raw_invoices' = TransactionEnd(raw_invoices, ViewAtFailure(pc, "raw_invoices"), TRUE)
  /\ raw_tickets' = TransactionEnd(raw_tickets, ViewAtFailure(pc, "raw_tickets"), TRUE)
  /\ raw_etl_run_log' =
       TransactionEnd(raw_etl_run_log, ViewAtFailure(pc, "raw_etl_run_log"), TRUE)
  /\ history' = Append(history,
       RunRecord("error", pc,
                 TransactionEnd(raw_etl_run_log, ViewAtFailure(pc, "raw_etl_run_log"), TRUE)))
  /\ ended' = [outcome |-> "error", stage |-> pc]
  /\ pc' = "IDLE"
  /\ ResetLocals
  /\ UNCHANGED <<writer, alone, conc>>
  /\ UNCHANGED <<clock, config>>

Next ==
  \/ \E f \in BOOLEAN, t \in NextReadings(clock) : Begin(f, t)
  \/ ForceRebuild
  \/ GetLastRun
  \/ ReadSources
  \/ Generate
  \/ WriteEvents
  \/ WriteInvoices
  \/ WriteTickets
  \/ AdvanceWatermark
  \/ Fail

Spec == Init /\ [][Next]_vars


(***************************************************************************)
(* insert_ignore_conflicts taken alone: one call after another on a table  *)
(* keyed by "id", chunk by chunk inside the one transaction that           *)
(* engine.begin() opens around the loop.                                   *)
(***************************************************************************)
MaxRows == 3
MaxCalls == 2

WPk == <<"id">>

\* the rows a caller may pass
WRowUniverse ==
  { [id |-> 1, val |-> "a", paid_at |-> None],
    [id |-> 1, val |-> "b", paid_at |-> NaT],
    [id |-> 2, val |-> "a", paid_at |-> Some(5)],
    [id |-> 2, val |-> "b", paid_at |-> NaT] }

\* the sequences over S of length at most n
SeqsUpTo(S, n) == UNION { [1..k -> S] : k \in 0..n }

\* a table never holds two rows with one key
KeyUnique(table, pk_columns) ==
  \A a, b \in table : PkOf(a, pk_columns) = PkOf(b, pk_columns) => a = b

InitW ==
  /\ InitStore
  /\ config = [lookback_days |-> 1, sample_users |-> 0, seed |-> 42]
  /\ w_pc = "ready"
  /\ w_table \in { t \in SUBSET { normalize_row(r) : r \in WRowUniverse } : KeyUnique(t, WPk) }
  /\ w_rows \in SeqsUpTo(WRowUniverse, MaxRows)
  /\ w_chunk_size \in {1, 2}
  /\ w_view = {} /\ w_next = 0 /\ w_inserted = 0 /\ w_results = <<>>
  /\ w_before = {}
  /\ AloneUnused
  /\ ConcUnused

\* lines 67-68: if not rows: return 0
WReturnEmpty ==
  /\ w_pc \in {"ready", "returned", "raised"}
  /\ Len(w_results) < MaxCalls
  /\ Len(w_rows) = 0
  /\ w_before' = w_table
  /\ w_view' = w_table
  /\ w_inserted' = 0
  /\ w_results' = Append(w_results, Some(0))
  /\ w_pc' = "returned"
  /\ UNCHANGED <<w_table, w_rows, w_chunk_size, w_next>>
  /\ UNCHANGED <<run, alone, conc>>

\* lines 74-78: inserted = 0; with engine.begin() as conn
WBegin ==
  /\ w_pc \in {"ready", "returned", "raised"}
  /\ Len(w_results) < MaxCalls
  /\ Len(w_rows) > 0
  /\ w_before' = w_table
  /\ w_view' = w_table
  /\ w_inserted' = 0
  /\ w_next' = 1
  /\ w_pc' = "in_transaction"
  /\ UNCHANGED <<w_table, w_rows, w_chunk_size, w_results>>
  /\ UNCHANGED <<run, alone, conc>>

\* lines 79-85: one chunk is executed on the connection
WChunk ==
  /\ w_pc = "in_transaction"
  /\ w_next <= Len(chunked_rows(w_rows, w_chunk_size))
  /\ LET one == ExecuteChunk(w_view, chunked_rows(w_rows, w_chunk_size)[w_next], WPk)
     IN /\ w_view' = one.table
        /\ w_inserted' = w_inserted + one.rowcount
  /\ w_next' = w_next + 1
  /\ UNCHANGED <<w_pc, w_table, w_rows, w_chunk_size, w_results, w_before>>
  /\ UNCHANGED <<run, alone, conc>>

\* line 84 raises for the chunk at hand: the exception leaves the with block
WChunkFails ==
  /\ w_pc = "in_transaction"
  /\ w_next <= Len(chunked_rows(w_rows, w_chunk_size))
  /\ w_table' = TransactionEnd(w_table, w_view, TRUE)
  /\ w_results' = Append(w_results, None)
  /\ w_pc' = "raised"
  /\ UNCHANGED <<w_view, w_rows, w_chunk_size, w_next, w_inserted, w_before>>
  /\ UNCHANGED <<run, alone, conc>>

\* the loop is over: the with block ends and line 87 returns inserted
WReturn ==
  /\ w_pc = "in_transaction"
  /\ w_next > Len(chunked_rows(w_rows, w_chunk_size))
  /\ w_table' = TransactionEnd(w_table, w_view, FALSE)
  /\ w_results' = Append(w_results, Some(w_inserted))
  /\ w_pc' = "returned"
  /\ UNCHANGED <<w_view, w_rows, w_chunk_size, w_next, w_inserted, w_before>>
  /\ UNCHANGED <<run, alone, conc>>

NextW ==
  \/ WReturnEmpty
  \/ WBegin
  \/ WChunk
  \/ WChunkFails
  \/ WReturn

SpecW == InitW /\ [][NextW]_vars


(***************************************************************************)
(* The generation of generate() taken alone: from a clock reading, a       *)
(* watermark and the arguments to the three generated row sets, without    *)
(* the store.                                                              *)
(***************************************************************************)
MaxSeed == 7

GSeeds == 0..MaxSeed
GSampleSizes == 0..(Len(raw_users) + 1)
GLookbacks == Lookbacks \cup {7}
\* the clock readings of a call: noon of a day of the horizon
GReadings == { Combine(DateOf(Clock0) + k, 12, 0) : k \in 0..HorizonDays }
\* the watermark a call can find: none, or one of the latest three days up to its own
GWatermarks(t) == {None} \cup { Some(Combine(DateOf(t) - k, 9, 30)) : k \in 0..2 }

InitG ==
  /\ InitStore
  /\ config = [lookback_days |-> 1, sample_users |-> 0, seed |-> 42]
  /\ WriterUnused
  /\ g_pc = "ready"
  /\ \E t \in GReadings :
       g_in \in [now : {t}, last_run : GWatermarks(t), lookback_days : GLookbacks,
                 sample_users : GSampleSizes, seed : GSeeds]
  /\ g_window = NoWindow
  /\ g_u = <<>> /\ g_subs = <<>> /\ g_rows = NoRows
  /\ g_rng = RngSeed(g_in.seed)
  /\ g_marks = <<RngSeed(g_in.seed)>>
  /\ ConcUnused

\* lines 115-121
GResolveWindow ==
  /\ g_pc = "ready"
  /\ g_window' = [start_dt |-> ResolveStart(g_in.last_run, g_in.now, g_in.lookback_days),
                  end_dt |-> g_in.now]
  /\ g_pc' = "resolved"
  /\ UNCHANGED <<g_in, g_u, g_subs, g_rows, g_rng, g_marks>>
  /\ UNCHANGED <<run, writer, conc>>

\* lines 139-149: u.sample(n=sample_users, random_state=seed) draws with the generator
\* pandas builds from random_state; rng is not passed to it and stays where it was
GSample ==
  /\ g_pc = "resolved"
  /\ g_u' = SampledUsers(MergedUsers, g_in.sample_users, g_in.seed)
  /\ g_subs' = SampledSubs(MergedUsers, raw_subscriptions, g_in.sample_users, g_in.seed)
  /\ g_pc' = "sampled"
  /\ g_marks' = Append(g_marks, g_rng)
  /\ UNCHANGED <<g_in, g_window, g_rows, g_rng>>
  /\ UNCHANGED <<run, writer, conc>>

\* lines 151-274
GGenerate ==
  /\ g_pc = "sampled"
  /\ LET start_d == DateOf(g_window.start_dt)
         end_d == DateOf(g_window.end_dt)
         days == date_range(start_d, end_d)
         ev == EventLoop(g_rng, days, g_u, 1)
         inv == InvoiceLoop(ev.rng, g_subs, g_u, InvoiceStart(start_d, g_in.last_run), end_d, 1)
         tk == TicketLoop(inv.rng, days, g_u, 1)
     IN /\ g_rows' = [events |-> ev.rows, invoices |-> inv.rows, tickets |-> tk.rows]
        /\ g_rng' = tk.rng
        /\ g_marks' = g_marks \o <<ev.rng, inv.rng, tk.rng>>
  /\ g_pc' = "generated"
  /\ UNCHANGED <<g_in, g_window, g_u, g_subs>>
  /\ UNCHANGED <<run, writer, conc>>

NextG ==
  \/ GResolveWindow
  \/ GSample
  \/ GGenerate

SpecG == InitG /\ [][NextG]_vars


(***************************************************************************)
(* Runs of generate() by two callers on the one store.  generate() takes   *)
(* no lock: every statement of a run is a step of its own, and the steps   *)
(* of the two runs interleave freely.                                      *)
(***************************************************************************)
MaxCallerRuns == 3

InFlight == { p \in Callers : c_pc[p] # "IDLE" }

InitC ==
  /\ InitStore
  /\ config \in [lookback_days : Lookbacks, sample_users : {0}, seed : Seeds]
  /\ WriterUnused
  /\ AloneUnused
  /\ c_pc = [p \in Callers |-> "IDLE"]
  /\ c_loc = [p \in Callers |-> CallerIdle]
  /\ c_done = <<>>

CUnchanged == UNCHANGED <<config, pc, locals, history, ended, writer, alone>>

\* lines 104-105, force_rebuild = False; the callers are alike, and of the idle ones
\* the first begins
CBegin(p, t) ==
  /\ c_pc[p] = "IDLE"
  /\ \A q \in Callers : c_pc[q] = "IDLE" => p <= q
  /\ Len(c_done) + Cardinality(InFlight) < MaxCallerRuns
  /\ t > clock /\ DateOf(t) <= DateOf(Clock0) + HorizonDays
  /\ clock' = t
  /\ c_loc' = [q \in Callers |->
                 IF q = p
                 THEN [CallerIdle EXCEPT !.now = t, !.rng = RngSeed(config.seed),
                                         !.overlapped = (InFlight # {})]
                 ELSE IF q \in InFlight THEN [c_loc[q] EXCEPT !.overlapped = TRUE]
                 ELSE c_loc[q]]
  /\ c_pc' = [c_pc EXCEPT ![p] = "GET_LAST_RUN"]
  /\ UNCHANGED <<store, c_done>>
  /\ CUnchanged

\* lines 112-121
CGetLastRun(p) ==
  /\ c_pc[p] = "GET_LAST_RUN"
  /\ c_loc' = [c_loc EXCEPT
        ![p].last_run = get_last_run(raw_etl_run_log),
        ![p].start_dt = ResolveStart(get_last_run(raw_etl_run_log), c_loc[p].now,
                                     config.lookback_days),
        ![p].end_dt = c_loc[p].now]
  /\ c_pc' = [c_pc EXCEPT ![p] = StageAfter(c_pc[p])]
  /\ UNCHANGED <<store, clock, c_done>>
  /\ CUnchanged

\* lines 124-149
CReadSources(p) ==
  /\ c_pc[p] = "READING_SOURCES"
  /\ c_loc' = [c_loc EXCEPT
        ![p].u = SampledUsers(MergedUsers, config.sample_users, config.seed),
        ![p].subs = SampledSubs(MergedUsers, raw_subscriptions, config.sample_users,
                                config.seed)]
  /\ c_pc' = [c_pc EXCEPT ![p] = StageAfter(c_pc[p])]
  /\ UNCHANGED <<store, clock, c_done>>
  /\ CUnchanged

\* lines 151-274
CGenerate(p) ==
  /\ c_pc[p] = "GENERATING"
  /\ LET me == c_loc[p]
         start_d == DateOf(me.start_dt)
         end_d == DateOf(me.end_dt)
         days == date_range(start_d, end_d)
         ev == EventLoop(me.rng, days, me.u, 1)
         inv == InvoiceLoop(ev.rng, me.subs, me.u, InvoiceStart(start_d, me.last_run),
                            end_d, 1)
         tk == TicketLoop(inv.rng, days, me.u, 1)
     IN c_loc' = [c_loc EXCEPT ![p].event_rows = ev.rows, ![p].invoice_rows = inv.rows,
                               ![p].ticket_rows = tk.rows, ![p].rng = tk.rng]
  /\ c_pc' = [c_pc EXCEPT ![p] = StageAfter(c_pc[p])]
  /\ UNCHANGED <<store, clock, c_done>>
  /\ CUnchanged

\* lines 279-287
CWriteEvents(p) ==
  /\ c_pc[p] = "WRITING_EVENTS"
  /\ LET w == insert_ignore_conflicts(raw_events, FrameRecords(c_loc[p].event_rows),
                                      <<"event_id">>, 1000)
     IN /\ raw_events' = w.table
        /\ c_loc' = [c_loc EXCEPT ![p].inserted.raw_events = w.inserted]
  /\ c_pc' = [c_pc EXCEPT ![p] = StageAfter(c_pc[p])]
  /\ UNCHANGED <<raw_invoices, raw_tickets, raw_etl_run_log, clock, c_done>>
  /\ CUnchanged

\* lines 289-297
CWriteInvoices(p) ==
  /\ c_pc[p] = "WRITING_INVOICES"
  /\ LET w == insert_ignore_conflicts(raw_invoices, FrameRecords(c_loc[p].invoice_rows),
                                      <<"invoice_id">>, 1000)
     IN /\ raw_invoices' = w.table
        /\ c_loc' = [c_loc EXCEPT ![p].inserted.raw_invoices = w.inserted]
  /\ c_pc' = [c_pc EXCEPT ![p] = StageAfter(c_pc[p])]
  /\ UNCHANGED <<raw_events, raw_tickets, raw_etl_run_log, clock, c_done>>
  /\ CUnchanged

\* lines 299-307
CWriteTickets(p) ==
  /\ c_pc[p] = "WRITING_TICKETS"
  /\ LET w == insert_ignore_conflicts(raw_tickets, FrameRecords(c_loc[p].ticket_rows),
                                      <<"ticket_id">>, 1000)
     IN /\ raw_tickets' = w.table
        /\ c_loc' = [c_loc EXCEPT ![p].inserted.raw_tickets = w.inserted]
  /\ c_pc' = [c_pc EXCEPT ![p] = StageAfter(c_pc[p])]
  /\ UNCHANGED <<raw_events, raw_invoices, raw_etl_run_log, clock, c_done>>
  /\ CUnchanged

\* lines 309-310
CAdvanceWatermark(p) ==
  /\ c_pc[p] = "ADVANCING_WATERMARK"
  /\ raw_etl_run_log' = set_last_run(raw_etl_run_log, c_loc[p].now)
  /\ c_done' = Append(c_done,
       [caller |-> p, now |-> c_loc[p].now, last_run |-> c_loc[p].last_run,
        start_d |-> DateOf(c_loc[p].start_dt), end_d |-> DateOf(c_loc[p].end_dt),
        inserted |-> c_loc[p].inserted, overlapped |-> c_loc[p].overlapped,
        wm_after |-> get_last_run(set_last_run(raw_etl_run_log, c_loc[p].now))])
  /\ c_loc' = [c_loc EXCEPT ![p] = CallerIdle]
  /\ c_pc' = [c_pc EXCEPT ![p] = "IDLE"]
  /\ UNCHANGED <<raw_events, raw_invoices, raw_tickets, clock>>
  /\ CUnchanged

NextC ==
  \/ \E p \in Callers, t \in NextReadings(clock) : CBegin(p, t)
  \/ \E p \in Callers : CGetLastRun(p)
  \/ \E p \in Callers : CReadSources(p)
  \/ \E p \in Callers : CGenerate(p)
  \/ \E p \in Callers : CWriteEvents(p)
  \/ \E p \in Callers : CWriteInvoices(p)
  \/ \E p \in Callers : CWriteTickets(p)
  \/ \E p \in Callers : CAdvanceWatermark(p)

SpecC == InitC /\ [][NextC]_vars


(***************************************************************************)
(* Properties                                                              *)
(***************************************************************************)
Range(f) == {f[i] : i \in DOMAIN f}

\* the sets of rows a successful write of the generated rows puts into an empty table
Written(rows) == {normalize_row(r) : r \in Range(FrameRecords(rows))}

\* the stages of a run in which the three row sets exist
GeneratedStages == {"WRITING_EVENTS", "WRITING_INVOICES", "WRITING_TICKETS",
                    "ADVANCING_WATERMARK"}
\* the stages of a run in which the window is resolved
ResolvedStages == {"READING_SOURCES", "GENERATING"} \cup GeneratedStages

\* <<year, month>> a is later than <<year, month>> b
MonthLater(a, b) == a[1] > b[1] \/ (a[1] = b[1] /\ a[2] > b[2])

\* the month <<year, month>> an invoice row bills
InvoiceMonth(row) == StrfYm(DateOf(row.issued_at))

\* the latest run that has ended
LastRun == history[Len(history)]

\* every generated row of run record r has its key in the sink it belongs to
AllKeysStored(r) ==
  /\ \A i \in 1..Len(r.event_rows) :
       \E row \in raw_events : row.event_id = r.event_rows[i].event_id
  /\ \A i \in 1..Len(r.invoice_rows) :
       \E row \in raw_invoices : row.invoice_id = r.invoice_rows[i].invoice_id
  /\ \A i \in 1..Len(r.ticket_rows) :
       \E row \in raw_tickets : row.ticket_id = r.ticket_rows[i].ticket_id

\* C1: while a run is in flight the watermark never holds this run's timestamp; once
\* the run has ended the watermark holds its timestamp exactly when the run returned,
\* and then every row it generated is in its sink: a run that raised (while reading,
\* generating or writing) left the watermark without its timestamp.
C1_WatermarkOnlyAfterWrites ==
  /\ pc # "IDLE" => get_last_run(raw_etl_run_log) # Some(now)
  /\ (pc = "IDLE" /\ Len(history) > 0) =>
       IF get_last_run(raw_etl_run_log) = Some(LastRun.now)
       THEN LastRun.outcome = "ok" /\ AllKeysStored(LastRun)
       ELSE LastRun.outcome = "error"

\* a run raised in its last write, after events were stored, and the watermark does
\* not hold its timestamp
C1_Witness ==
  /\ pc = "IDLE" /\ ended = [outcome |-> "error", stage |-> "WRITING_TICKETS"]
  /\ LastRun.inserted.raw_events > 0
  /\ get_last_run(raw_etl_run_log) # Some(LastRun.now)

\* C2: the invoices table never holds two different rows for one subscription and
\* one calendar month.
C2_OneInvoicePerSubscriptionMonth ==
  \A a, b \in raw_invoices :
    (a.subscription_id = b.subscription_id /\ InvoiceMonth(a) = InvoiceMonth(b)) => a = b

\* the invoice write of a run has just skipped a regenerated invoice whose stored row
\* has other field values
C2_Witness ==
  /\ pc = "WRITING_TICKETS"
  /\ \E r \in Written(invoice_rows) : \E old \in raw_invoices :
       old.invoice_id = r.invoice_id /\ old # r

\* C3: an incremental run that read a watermark lying on a day other than the first of
\* a month generates invoices for months after the watermark's month only.
C3_NoInvoiceForWatermarkMonth ==
  (/\ pc \in GeneratedStages
   /\ ~args.force_rebuild
   /\ last_run # None
   /\ YMD(DateOf(last_run[1])).d # 1)
  => \A i \in 1..Len(invoice_rows) :
       MonthLater(InvoiceMonth(invoice_rows[i]), StrfYm(DateOf(last_run[1])))

\* an incremental run after a mid-month watermark that did generate invoices
C3_Witness ==
  /\ pc \in GeneratedStages
  /\ ~args.force_rebuild
  /\ last_run # None
  /\ YMD(DateOf(last_run[1])).d # 1
  /\ Len(invoice_rows) > 0


\* the first two runs on the fresh store have both returned, neither with
\* force_rebuild (the arguments are those of config in every run)
TwiceOnFreshStore ==
  /\ Len(history) >= 2
  /\ history[1].outcome = "ok" /\ ~history[1].args.force_rebuild
  /\ history[2].outcome = "ok" /\ ~history[2].args.force_rebuild

\* C4 as stated: the second of two identical calls without force_rebuild on a fresh
\* store returns 0 for all three sinks.
C4_SecondRunInsertsNothing ==
  TwiceOnFreshStore => history[2].inserted = NoInserted

\* C4 amended: the second of two identical calls without force_rebuild on a fresh store
\* returns 0 for all three sinks when it runs on the calendar day of the first call.
C4_SecondRunSameDayInsertsNothing ==
  (TwiceOnFreshStore /\ DateOf(history[2].now) = DateOf(history[1].now))
  => history[2].inserted = NoInserted

\* two calls on one day, of which the first stored events and invoices
C4_Witness ==
  /\ TwiceOnFreshStore
  /\ DateOf(history[2].now) = DateOf(history[1].now)
  /\ history[1].inserted.raw_events > 0
  /\ history[1].inserted.raw_invoices > 0

\* run records a and b generated from the same seed, sample size and window (the
\* source snapshots are the same throughout)
SameGeneratorInputs(a, b) ==
  /\ a.generated /\ b.generated
  /\ a.args.seed = b.args.seed
  /\ a.args.sample_users = b.args.sample_users
  /\ a.start_d = b.start_d /\ a.end_d = b.end_d

SameRows(a, b) ==
  /\ a.event_rows = b.event_rows
  /\ a.invoice_rows = b.invoice_rows
  /\ a.ticket_rows = b.ticket_rows

\* C5 as stated: two runs with the same seed, snapshots, sample size and window
\* generate the same rows, whatever else differs.
C5_DeterministicInInputs ==
  \A i, j \in 1..Len(history) :
    SameGeneratorInputs(history[i], history[j]) => SameRows(history[i], history[j])

\* C5 amended: two runs with the same seed, snapshots, sample size and window that
\* also agree on whether a watermark was read generate the same rows.
C5_DeterministicInInputsAndWatermark ==
  \A i, j \in 1..Len(history) :
    (/\ SameGeneratorInputs(history[i], history[j])
     /\ (history[i].last_run = None) = (history[j].last_run = None))
    => SameRows(history[i], history[j])

\* two runs at different times with the same inputs that generated events
C5_Witness ==
  \E i, j \in 1..Len(history) :
    /\ i < j
    /\ SameGeneratorInputs(history[i], history[j])
    /\ (history[i].last_run = None) = (history[j].last_run = None)
    /\ Len(history[i].event_rows) > 0
    /\ Len(history[i].invoice_rows) > 0

\* subscription sub overlaps the window [start_d, end_d], so that the invoice loop
\* of a run without the mid-month shift bills the month of the overlap's first day
BilledFrom(sub, start_d, end_d) ==
  LET window_start == Max(DateOf(sub.start_at), start_d)
      window_end == Min(IF sub.end_at # None THEN DateOf(sub.end_at[1]) ELSE end_d, end_d)
  IN IF window_start <= window_end THEN Some(StrfYm(window_start)) ELSE None

\* C6: a forced run first empties the three sinks and removes the watermark and
\* resolves the window [now - lookback_days, now]; when it has returned, the sinks hold
\* exactly its generated rows, it has billed the month its window starts in (no
\* mid-month shift), and its rows are those of a first-ever run over the same window.
C6_ForceRebuildIsFirstRun ==
  /\ (pc = "READING_SOURCES" /\ args.force_rebuild) =>
       /\ raw_events = {} /\ raw_invoices = {} /\ raw_tickets = {}
       /\ get_last_run(raw_etl_run_log) = None
       /\ DateOf(start_dt) = DateOf(now) - args.lookback_days
       /\ DateOf(end_dt) = DateOf(now)
  /\ (pc = "IDLE" /\ Len(history) > 0 /\ LastRun.args.force_rebuild /\ LastRun.outcome = "ok") =>
       /\ raw_events = Written(LastRun.event_rows)
       /\ raw_invoices = Written(LastRun.invoice_rows)
       /\ raw_tickets = Written(LastRun.ticket_rows)
       /\ \A sub \in Range(LastRun.subs) :
            BilledFrom(sub, LastRun.start_d, LastRun.end_d) # None =>
              \E row \in raw_invoices :
                /\ row.subscription_id = sub.subscription_id
                /\ Some(InvoiceMonth(row)) = BilledFrom(sub, LastRun.start_d, LastRun.end_d)
       /\ \A i \in 1..Len(history) :
            (/\ ~history[i].args.force_rebuild /\ history[i].wm_before = None
             /\ SameGeneratorInputs(history[i], LastRun))
            => SameRows(history[i], LastRun)

\* a forced run has returned on a store that held a watermark and rows of an earlier
\* run, with a window that starts in mid-month
C6_Witness ==
  /\ pc = "IDLE" /\ Len(history) > 1
  /\ LastRun.args.force_rebuild /\ LastRun.outcome = "ok"
  /\ LastRun.wm_before # None
  /\ history[1].inserted.raw_events > 0
  /\ YMD(LastRun.start_d).d # 1
  /\ raw_invoices # {}

\* C7: once the window is resolved, it starts lookback_days before now when the
\* watermark table has no row for the pipeline, on the day after the watermark's day
\* when it has one, and it ends now.
C7_WindowResolution ==
  pc \in ResolvedStages =>
    /\ end_dt = now
    /\ IF get_last_run(raw_etl_run_log) = None
       THEN DateOf(start_dt) = DateOf(now) - args.lookback_days
       ELSE DateOf(start_dt) = DateOf(get_last_run(raw_etl_run_log)[1]) + 1

\* an incremental run has resolved its window from a watermark of an earlier day
C7_Witness ==
  /\ pc = "GENERATING"
  /\ get_last_run(raw_etl_run_log) # None
  /\ DateOf(start_dt) <= DateOf(end_dt)

\* C8: the watermark table holds at most one row for the pipeline, and of two
\* successful runs the later one leaves the greater last_run_at.
C8_WatermarkIncreases ==
  /\ Cardinality({r \in raw_etl_run_log : r.pipeline = PIPELINE_NAME}) <= 1
  /\ \A i, j \in 1..Len(history) :
       (i < j /\ history[i].outcome = "ok" /\ history[j].outcome = "ok")
       => /\ history[i].wm_after # None /\ history[j].wm_after # None
          /\ history[i].wm_after[1] < history[j].wm_after[1]

\* three successful runs, one after the other
C8_Witness ==
  /\ Len(history) >= 3
  /\ \A i \in 1..Len(history) : history[i].outcome = "ok"
  /\ raw_etl_run_log # {}



\* the keys of a set of rows, and of the rows passed to the writer
KeysOf(table) == { PkOf(r, WPk) : r \in table }
WInputRows == { normalize_row(w_rows[i]) : i \in 1..Len(w_rows) }

\* C9: a call of insert_ignore_conflicts that returns has left every row stored before
\* the call as it was, has added one row, taken from the normalised input, for each
\* input key that was not stored and nothing else, and has returned the number of rows
\* added; a call that follows a returned call with the same rows returns 0 and adds
\* nothing.
C9_InsertIgnoresConflicts ==
  w_pc = "returned" =>
    /\ w_before \subseteq w_table
    /\ KeyUnique(w_table, WPk)
    /\ (w_table \ w_before) \subseteq WInputRows
    /\ KeysOf(w_table) = KeysOf(w_before) \cup KeysOf(WInputRows)
    /\ w_results[Len(w_results)] = Some(Cardinality(w_table) - Cardinality(w_before))
    /\ (Len(w_results) = 2 /\ w_results[1] # None) =>
         (w_results[2] = Some(0) /\ w_table = w_before)

\* two calls with the same rows have returned: the first added one row and skipped an
\* input row whose key was stored with other values, the second added nothing
C9_Witness ==
  /\ w_pc = "returned"
  /\ Len(w_results) = 2
  /\ w_results[1] = Some(1)
  /\ w_results[2] = Some(0)
  /\ \E i, j \in 1..Len(w_rows) : w_rows[i].id # w_rows[j].id
  /\ \E i \in 1..Len(w_rows) : normalize_row(w_rows[i]) \notin w_table

\* C10: when a chunk of a call fails, what the earlier chunks of that call wrote stays
\* in the table: the committed table is the one the connection saw when the chunk
\* was reached.
C10_EarlierChunksPersist ==
  w_pc = "raised" => w_table = w_view

\* the latest run has aborted with an error and no other run has begun
Aborted == pc = "IDLE" /\ ended.outcome = "error" /\ Len(history) > 0

\* C11 as stated: after a run has aborted, whatever its arguments, the watermark is the
\* one (or the absence) the store held when the run began.
C11_AbortKeepsWatermark ==
  Aborted => get_last_run(raw_etl_run_log) = LastRun.wm_before

\* C11 amended: after a run without force_rebuild has aborted, and after a forced run
\* that aborted in its rebuild step, the watermark is the one the store held when the
\* run began; after a forced run that aborted later the watermark is absent.  In no
\* case does it hold the aborted run's timestamp.
C11_AbortNeverAdvancesWatermark ==
  Aborted =>
    /\ get_last_run(raw_etl_run_log) =
         (IF LastRun.args.force_rebuild /\ ended.stage # "FORCE_REBUILD"
          THEN None ELSE LastRun.wm_before)
    /\ get_last_run(raw_etl_run_log) # Some(LastRun.now)

\* a run without force_rebuild that found a watermark has aborted while the upsert of
\* its own timestamp was under way
C11_Witness ==
  /\ Aborted
  /\ ~LastRun.args.force_rebuild
  /\ LastRun.wm_before # None
  /\ ended.stage = "ADVANCING_WATERMARK"
  /\ LastRun.inserted.raw_events > 0

\* run record b is the invocation that follows run record a, with the same arguments,
\* and a failed in reading, generating or writing
RetryOf(a, b) ==
  /\ a.outcome = "error"
  /\ a.stage \in {"READING_SOURCES", "GENERATING",
                  "WRITING_EVENTS", "WRITING_INVOICES", "WRITING_TICKETS"}
  /\ b.args = a.args
  /\ b.resolved

ReadFails == pc = "READING_SOURCES" /\ pc' = "IDLE" /\ ended'.outcome = "error"

\* C13 as stated: when a source read fails the three sinks and the watermark table are
\* left as they were when the run began, whatever force_rebuild is.
C13_ReadFailureCommitsNothing ==
  [][ReadFails =>
       /\ raw_events' = pre.raw_events
       /\ raw_invoices' = pre.raw_invoices
       /\ raw_tickets' = pre.raw_tickets
       /\ raw_etl_run_log' = pre.raw_etl_run_log]_vars

\* C13 amended: when a source read fails in a run without force_rebuild the three sinks
\* and the watermark table are left as they were when the run began; in a run with
\* force_rebuild they are left as the rebuild step committed them, the sinks empty and
\* the pipeline's watermark row removed.
C13_ReadFailureKeepsWhatWasCommitted ==
  [][ReadFails =>
       IF args.force_rebuild
       THEN /\ raw_events' = {} /\ raw_invoices' = {} /\ raw_tickets' = {}
            /\ raw_etl_run_log' =
                 {r \in pre.raw_etl_run_log : r.pipeline # PIPELINE_NAME}
       ELSE /\ raw_events' = pre.raw_events
            /\ raw_invoices' = pre.raw_invoices
            /\ raw_tickets' = pre.raw_tickets
            /\ raw_etl_run_log' = pre.raw_etl_run_log]_vars

\* a source read has failed in a run without force_rebuild on a store that held rows
\* and a watermark
C13_Witness ==
  /\ Aborted
  /\ ended.stage = "READING_SOURCES"
  /\ ~LastRun.args.force_rebuild
  /\ LastRun.wm_before # None
  /\ raw_events # {} /\ raw_invoices # {}

\* C14: a run whose resolved window starts after now generates no event, no invoice
\* and no ticket; when it has returned, its three counts are 0 and the watermark holds
\* its timestamp.
C14_EmptyWindowIsNoError ==
  /\ (pc \in GeneratedStages /\ start_dt > now) =>
       (event_rows = <<>> /\ invoice_rows = <<>> /\ ticket_rows = <<>>)
  /\ \A i \in 1..Len(history) :
       (history[i].outcome = "ok" /\ history[i].start_d > history[i].end_d) =>
         /\ history[i].event_rows = <<>>
         /\ history[i].invoice_rows = <<>>
         /\ history[i].ticket_rows = <<>>
         /\ history[i].inserted = NoInserted
         /\ history[i].wm_after = Some(history[i].now)

\* a second run on the calendar day of the watermark has returned, on a store whose
\* subscriptions are active and whose first run stored rows
C14_Witness ==
  /\ Len(history) >= 2
  /\ history[1].outcome = "ok" /\ history[1].inserted.raw_invoices > 0
  /\ history[2].outcome = "ok"
  /\ history[2].start_d > history[2].end_d
  /\ Len(history[2].subs) > 0

\* the invoices generated for subscription sub by the call taken alone
GInvoicesOf(sub) ==
  { g_rows.invoices[i] : i \in { j \in 1..Len(g_rows.invoices) :
      g_rows.invoices[j].subscription_id = sub.subscription_id } }

\* the first and the last day on which subscription sub is active inside the window
\* the invoice loop looks at
GActiveFrom(sub) ==
  Max(DateOf(sub.start_at), InvoiceStart(DateOf(g_window.start_dt), g_in.last_run))
GActiveTo(sub) ==
  Min(IF sub.end_at # None THEN DateOf(sub.end_at[1]) ELSE DateOf(g_window.end_dt),
      DateOf(g_window.end_dt))

\* C15: every invoice generated for a subscription is issued on a month start that
\* lies between the first and the last day on which the subscription is active inside
\* the window; a subscription with no such day gets no invoice; and no invoice is
\* issued before the subscription's start date.
C15_InvoiceInsideActiveInterval ==
  g_pc = "generated" =>
    \A k \in 1..Len(g_subs) :
      LET sub == g_subs[k]
      IN /\ \A row \in GInvoicesOf(sub) :
              /\ GActiveFrom(sub) <= DateOf(row.issued_at)
              /\ DateOf(row.issued_at) <= GActiveTo(sub)
              /\ DateOf(sub.start_at) <= DateOf(row.issued_at)
         /\ GActiveFrom(sub) > GActiveTo(sub) => GInvoicesOf(sub) = {}

\* the generated invoices of the call taken alone, and the same rows as the writer
\* passes them to the table
GInvoices == Range(g_rows.invoices)
GInvoiceRecords ==
  { normalize_row(FrameRecords(g_rows.invoices)[i]) : i \in 1..Len(g_rows.invoices) }

\* exactly one of paid_at and failed_at is set, and failure_reason is set exactly when
\* failed_at is
PaidXorFailed(row) ==
  /\ (row.paid_at = None) # (row.failed_at = None)
  /\ (row.failure_reason # None) = (row.failed_at # None)

\* C16: every generated invoice, as generated and as passed to the table, has exactly
\* one of paid_at and failed_at set, and a failure_reason exactly when failed_at is set.
C16_PaidXorFailed ==
  g_pc = "generated" =>
    /\ \A row \in GInvoices : PaidXorFailed(row)
    /\ \A row \in GInvoiceRecords : PaidXorFailed(row)

\* one call has generated a paid invoice and a failed one
C16_Witness ==
  /\ g_pc = "generated"
  /\ \E row \in GInvoices : row.paid_at # None
  /\ \E row \in GInvoices : row.failed_at # None /\ row.failure_reason # None

\* C17: the properties of a generated event hold a feature exactly when the event is
\* feature_used, and the feature is one of the five fixed ones.
C17_FeatureIffFeatureUsed ==
  g_pc = "generated" =>
    \A i \in 1..Len(g_rows.events) :
      LET ev == g_rows.events[i]
      IN /\ ("feature" \in DOMAIN ev.properties_json) = (ev.event_name = "feature_used")
         /\ "feature" \in DOMAIN ev.properties_json =>
              ev.properties_json.feature \in
                {"automation", "crm_sync", "analytics", "billing", "alerts"}

\* one call has generated a feature_used event and an event of another name
C17_Witness ==
  /\ g_pc = "generated"
  /\ \E i \in 1..Len(g_rows.events) : g_rows.events[i].event_name = "feature_used"
  /\ \E i \in 1..Len(g_rows.events) : g_rows.events[i].event_name = "login"

\* the users selected by the call taken alone
GSelected == { g_u[k].user_id : k \in 1..Len(g_u) }

\* C20: with 0 < sample_users < |U| the call selects exactly sample_users distinct
\* users, its events and tickets belong to selected users and its invoices to
\* subscriptions of selected users; with sample_users 0 or at least |U| all users and
\* all subscriptions take part.
C20_SamplingRestrictsGeneration ==
  g_pc \in {"sampled", "generated"} =>
    IF 0 < g_in.sample_users /\ g_in.sample_users < Len(raw_users)
    THEN /\ Len(g_u) = g_in.sample_users
         /\ Cardinality(GSelected) = g_in.sample_users
         /\ GSelected \subseteq { raw_users[k].user_id : k \in 1..Len(raw_users) }
         /\ \A i \in 1..Len(g_rows.events) : g_rows.events[i].user_id \in GSelected
         /\ \A i \in 1..Len(g_rows.tickets) : g_rows.tickets[i].user_id \in GSelected
         /\ \A i \in 1..Len(g_rows.invoices) :
              \E k \in 1..Len(raw_subscriptions) :
                /\ raw_subscriptions[k].subscription_id = g_rows.invoices[i].subscription_id
                /\ raw_subscriptions[k].user_id \in GSelected
    ELSE /\ g_u = MergedUsers
         /\ g_subs = raw_subscriptions

\* a call that sampled one of the two users has generated events and invoices, and the
\* user left out has subscriptions
C20_Witness ==
  /\ g_pc = "generated"
  /\ g_in.sample_users = 1
  /\ Len(g_rows.events) > 0 /\ Len(g_rows.invoices) > 0
  /\ \E k \in 1..Len(raw_subscriptions) : raw_subscriptions[k].user_id \notin GSelected

\* every row of table before whose key is still in table after is there with the
\* same field values
SameWhereKept(before, after, pk_columns) ==
  \A r \in before, r2 \in after :
    PkOf(r, pk_columns) = PkOf(r2, pk_columns) => r = r2

\* C19 as stated: a row stored when a run began keeps its field values under its key
\* throughout the run, whatever the run's arguments.
C19_StoredRowsNeverChange ==
  /\ SameWhereKept(pre.raw_events, raw_events, <<"event_id">>)
  /\ SameWhereKept(pre.raw_invoices, raw_invoices, <<"invoice_id">>)
  /\ SameWhereKept(pre.raw_tickets, raw_tickets, <<"ticket_id">>)

\* C19 amended: a row stored when a run without force_rebuild began stays in its table
\* with the same field values throughout the run; rows are only added.
C19_StoredRowsNeverChangeUnforced ==
  (pc # "IDLE" /\ ~args.force_rebuild) =>
    /\ pre.raw_events \subseteq raw_events
    /\ pre.raw_invoices \subseteq raw_invoices
    /\ pre.raw_tickets \subseteq raw_tickets
    /\ SameWhereKept(pre.raw_events, raw_events, <<"event_id">>)
    /\ SameWhereKept(pre.raw_invoices, raw_invoices, <<"invoice_id">>)
    /\ SameWhereKept(pre.raw_tickets, raw_tickets, <<"ticket_id">>)

\* a run without force_rebuild has written its invoices, one of which it had generated
\* with a stored key and other field values
C19_Witness ==
  /\ pc = "WRITING_TICKETS"
  /\ ~args.force_rebuild
  /\ \E i \in 1..Len(invoice_rows) : \E r \in pre.raw_invoices :
       /\ r.invoice_id = invoice_rows[i].invoice_id
       /\ r # normalize_row(FrameRecords(invoice_rows)[i])

\* the watermark-monotonic and no-duplicate-window guarantees over the runs that have
\* returned: of two runs the later return has the greater timestamp and leaves the
\* greater watermark, and its window starts after the earlier one's window ended
SerialGuarantees ==
  \A i, j \in 1..Len(c_done) :
    i < j =>
      /\ c_done[i].now < c_done[j].now
      /\ c_done[i].wm_after[1] < c_done[j].wm_after[1]
      /\ c_done[i].end_d < c_done[j].start_d

\* C18: generate() has no guard against a concurrent run: a run that returns leaves its
\* own timestamp as the watermark whatever was stored, and a run resolves its window
\* from the watermark it read whatever has been written since; when no run began
\* while another was in flight, the guarantees hold.
C18_UnguardedAgainstConcurrentRuns ==
  /\ \A i \in 1..Len(c_done) :
       /\ c_done[i].wm_after = Some(c_done[i].now)
       /\ c_done[i].start_d =
            DateOf(ResolveStart(c_done[i].last_run, c_done[i].now, config.lookback_days))
  /\ (c_done # <<>> /\ InFlight = {}) =>
       get_last_run(raw_etl_run_log) = Some(c_done[Len(c_done)].now)
  /\ (\A i \in 1..Len(c_done) : ~c_done[i].overlapped) => SerialGuarantees

\* two interleaved runs have returned: both had read the same watermark and resolved
\* the same window start, the run that began earlier returned last, and the watermark
\* it left is older than the one the other run had written
C18_Witness ==
  \E i, j \in 1..Len(c_done) :
    /\ i < j
    /\ c_done[i].overlapped /\ c_done[j].overlapped
    /\ c_done[i].last_run # None
    /\ c_done[i].last_run = c_done[j].last_run
    /\ c_done[i].start_d = c_done[j].start_d
    /\ c_done[j].now < c_done[i].now
    /\ InFlight = {}
    /\ get_last_run(raw_etl_run_log) = Some(c_done[j].now)
    /\ get_last_run(raw_etl_run_log)[1] < c_done[i].wm_after[1]

(***************************************************************************)
(* C21: the order of the draws on the stream                               *)
(***************************************************************************)
RECURSIVE Advance(_, _)
\* the state of the stream n draws after the state s
Advance(s, n) == IF n = 0 THEN s ELSE Advance(RngNext(s), n - 1)

RECURSIVE SumOver(_, _, _, _)
\* the sum of f(rows[k]) over the rows lo..hi
SumOver(rows, f(_), lo, hi) ==
  IF lo > hi THEN 0
  ELSE IF lo = hi THEN f(rows[lo])
  ELSE SumOver(rows, f, lo, (lo + hi) \div 2) + SumOver(rows, f, (lo + hi) \div 2 + 1, hi)

\* the user-days of the window of the call
GUserDays ==
  Len(date_range(DateOf(g_window.start_dt), DateOf(g_window.end_dt))) * Len(g_u)

\* the draws the generated rows stand for: one count per user-day and a minute and a
\* name per event, a feature for feature_used; one trial per invoice, then the hours,
\* and the reason of a failure; one trial per user-day and a minute, the hours, the
\* csat shift and the category per ticket
GEventDraws ==
  GUserDays + SumOver(g_rows.events,
                      LAMBDA r : IF r.event_name = "feature_used" THEN 3 ELSE 2,
                      1, Len(g_rows.events))
GInvoiceDraws ==
  SumOver(g_rows.invoices, LAMBDA r : IF r.failed_at # None THEN 3 ELSE 2,
          1, Len(g_rows.invoices))
GTicketDraws == GUserDays + 4 * Len(g_rows.tickets)

\* the sampling of the call took place
GSamplingTookPlace == g_in.sample_users > 0 /\ g_in.sample_users < Len(MergedUsers)

\* the three loops draw from the generator seeded at the start of the call, the event
\* loop first, then the invoice loop, then the ticket loop, each from where the one
\* before left the stream
LoopsDrawInOrder ==
  g_pc = "generated" =>
    /\ g_marks[1] = RngSeed(g_in.seed)
    /\ g_marks[3] = Advance(g_marks[2], GEventDraws)
    /\ g_marks[4] = Advance(g_marks[3], GInvoiceDraws)
    /\ g_marks[5] = Advance(g_marks[4], GTicketDraws)
    /\ g_rng = g_marks[5]

\* a sampling that takes place draws from that generator and moves its stream on
SamplingDrawsFromStream ==
  g_pc \in {"sampled", "generated"} /\ GSamplingTookPlace => g_marks[2] # g_marks[1]

\* C21: all random draws of a run come from the one generator seeded at the start and
\* never reseeded, in the order sampling, event loop, invoice loop, ticket loop; the
\* sampling draw is taken from that same stream
C21_OneStreamInCallOrder == LoopsDrawInOrder /\ SamplingDrawsFromStream

(***************************************************************************)
(* C22: the windows of consecutive runs tile the calendar days             *)
(***************************************************************************)
\* every run so far returned and none was a forced rebuild
OnlyUnforcedReturns ==
  \A i \in 1..Len(history) :
    history[i].outcome = "ok" /\ ~history[i].args.force_rebuild

\* the runs whose window [start_d, end_d] holds the day d
RunsCovering(d) == {i \in 1..Len(history) : history[i].start_d <= d /\ d <= history[i].end_d}

\* C22: after runs that all returned, none of them forced, every calendar day from the
\* first run's start day to the watermark's day lies in the window of exactly one run
\* (the windows of consecutive runs neither overlap nor leave a gap), and every stored
\* event and ticket falls on a day no later than the watermark's day
C22_WindowsTileTheDays ==
  (pc = "IDLE" /\ Len(history) > 0 /\ OnlyUnforcedReturns) =>
    LET wm_d == DateOf(get_last_run(raw_etl_run_log)[1])
    IN /\ get_last_run(raw_etl_run_log) = Some(LastRun.now)
       /\ \A d \in history[1].start_d .. wm_d : Cardinality(RunsCovering(d)) = 1
       /\ \A i \in 1..(Len(history) - 1) : history[i + 1].start_d = history[i].end_d + 1
       /\ \A e \in raw_events : DateOf(e.event_time) <= wm_d
       /\ \A t \in raw_tickets : DateOf(t.created_at) <= wm_d

\* three runs returned, the second on the day of the first with an empty window and the
\* third two days later with a window of two days, and events of the first and of the
\* third window and a ticket are stored
C22_Witness ==
  /\ pc = "IDLE" /\ Len(history) = 3 /\ OnlyUnforcedReturns
  /\ history[2].start_d > history[2].end_d
  /\ history[3].end_d = history[3].start_d + 1
  /\ \E e \in raw_events : DateOf(e.event_time) = history[1].end_d
  /\ \E e \in raw_events : DateOf(e.event_time) = history[3].end_d
  /\ raw_tickets # {}

(***************************************************************************)
(* C23: billing is complete across incremental runs                        *)
(***************************************************************************)
\* <<year, month>> a is not later than <<year, month>> b
MonthNotLater(a, b) == ~MonthLater(a, b)

\* the last day of the active interval of a subscription as of the day d
ActiveUntil(sub, d) == IF sub.end_at # None THEN DateOf(sub.end_at[1]) ELSE d

\* the months <<year, month>> from the first run's start month to the watermark's month
\* in which the subscription is active
MonthsDue(sub, first_start_d, wm_d) ==
  { StrfYm(d) : d \in { x \in Min(first_start_d, DateOf(sub.start_at)) .. wm_d :
      /\ MonthNotLater(StrfYm(first_start_d), StrfYm(x))
      /\ MonthNotLater(StrfYm(x), StrfYm(wm_d))
      /\ MonthNotLater(StrfYm(DateOf(sub.start_at)), StrfYm(x))
      /\ MonthNotLater(StrfYm(x), StrfYm(ActiveUntil(sub, wm_d))) } }

\* C23: after runs that all returned, none of them forced, every participating
\* subscription has an invoice row for every month from the first run's start month to
\* the watermark's month that lies between the month of its start and the month of its
\* end (of the watermark's day when it has no end): the mid-month shift skips no month
\* for good
C23_BillingComplete ==
  (pc = "IDLE" /\ Len(history) > 0 /\ OnlyUnforcedReturns) =>
    \A k \in 1..Len(LastRun.subs) :
      \A ym \in MonthsDue(LastRun.subs[k], history[1].start_d,
                          DateOf(get_last_run(raw_etl_run_log)[1])) :
        \E row \in raw_invoices :
          /\ row.subscription_id = LastRun.subs[k].subscription_id
          /\ row.invoice_id = <<"inv", LastRun.subs[k].subscription_id, ym>>

\* a first run in January and an incremental run whose window starts in mid-January and
\* ends in February, its invoice window shifted to the first of February: the
\* subscription s1 has its January and its February invoice
C23_Witness ==
  /\ pc = "IDLE" /\ Len(history) >= 2 /\ OnlyUnforcedReturns
  /\ YMD(LastRun.start_d).m = 1 /\ YMD(LastRun.start_d).d # 1
  /\ YMD(LastRun.end_d).m = 2
  /\ \E k \in 1..Len(LastRun.subs) :
       /\ LastRun.subs[k].subscription_id = "s1"
       /\ MonthsDue(LastRun.subs[k], history[1].start_d, LastRun.end_d) = {<<2024, 1>>, <<2024, 2>>}
  /\ \E row \in raw_invoices : row.invoice_id = <<"inv", "s1", <<2024, 1>>>>
  /\ \E row \in raw_invoices : row.invoice_id = <<"inv", "s1", <<2024, 2>>>>

(***************************************************************************)
(* C24: one set of draws per user-day in the stored data                   *)
(***************************************************************************)
\* the stored events and tickets of a user on a calendar day
EventsOn(user_id, d) ==
  {e \in raw_events : e.user_id = user_id /\ DateOf(e.event_time) = d}
TicketsOn(user_id, d) ==
  {t \in raw_tickets : t.user_id = user_id /\ DateOf(t.created_at) = d}

\* the users and the days that stored rows are about
StoredUsers == {e.user_id : e \in raw_events} \cup {t.user_id : t \in raw_tickets}
StoredDays ==
  {DateOf(e.event_time) : e \in raw_events} \cup {DateOf(t.created_at) : t \in raw_tickets}

\* at most six stored events per user and calendar day
AtMostSixEventsPerUserDay ==
  \A user_id \in StoredUsers, d \in StoredDays : Cardinality(EventsOn(user_id, d)) <= 6

\* at most one stored ticket per user and calendar day
AtMostOneTicketPerUserDay ==
  \A user_id \in StoredUsers, d \in StoredDays : Cardinality(TicketsOn(user_id, d)) <= 1

\* C24: after any sequence of runs with the one seed on unchanged sources, runs that
\* raise after some of their writes and are retried on a later day included, the store
\* holds at most 6 events and at most one ticket per user and calendar day: a retry
\* adds no second, differently drawn set of rows for a user-day stored before
C24_OneDrawPerUserDay == AtMostSixEventsPerUserDay /\ AtMostOneTicketPerUserDay

====
